---- MODULE Spec2Model ----
(***************************************************************************)
(* Model of the CloudWatch-alarm-to-Teams relay                            *)
(* (src/lambdas/cloudwatch_alerts_to_teams/app/main.py).                   *)
(*                                                                         *)
(* Texts that are sanitised are sequences of one-character strings.  URLs  *)
(* are records of the parts urlparse() splits them into.  Values of JSON   *)
(* payloads and of secrets are tagged records, so that Python's isinstance *)
(* tests and truthiness can be stated.                                     *)
(***************************************************************************)
EXTENDS Integers, Sequences, FiniteSets, TLC

VARIABLES
    \* module-level state of main.py
    WEBHOOK_URL_SECRET_NAME,  \* line 48, read from the environment at import
    AWS_REGION,               \* line 49
    webhook_url_cache,        \* line 19, _webhook_url_cache
    \* one invocation of lambda_handler
    pc,          \* "idle" | "loop" | "sending" | "returned" | "raised"
    records,     \* list(event.records)
    idx,         \* position of the record the for loop is at
    successes,
    failures,
    response,    \* what lambda_handler returned, or the exception that left it
    cur,         \* locals of process_sns_record while the POST is in flight
    retry,       \* the adapter's Retry object: retries left, attempts made
    \* observations (history only, never read by the program)
    lookups,     \* secrets_provider.get calls since the invocation began
    lookupsFailed, \* those of them that did not yield a usable https URL
    cacheAtInvoke, \* _webhook_url_cache when the invocation began
    posted,      \* the last delivery: URL, POST attempts, how session.post ended, the result
    call,        \* last direct get_webhook_url call: arguments, cache before, result
    \* pure-function harness (sanitize_text, extract_alarm_data)
    fn

vars == <<WEBHOOK_URL_SECRET_NAME, AWS_REGION, webhook_url_cache, pc, records, idx,
          successes, failures, response, cur, retry, lookups, lookupsFailed,
          cacheAtInvoke, posted, call, fn>>

handlerVars == <<pc, records, idx, successes, failures, response, cur, retry,
                 lookups, lookupsFailed, cacheAtInvoke, posted>>

-----------------------------------------------------------------------------
(* Bounds of the model *)

MaxRecords == 2
MaxTextLen == 3
MaxPresent == 2

-----------------------------------------------------------------------------
(* URLs: the parts urlparse() yields.  netloc is [userinfo@]host[:port].   *)

Url(scheme, host, port) == [scheme |-> scheme, host |-> host, port |-> port, pad |-> FALSE]

\* A str is modelled by the URL parts it parses into; pad = surrounding whitespace.
EmptyStr == Url("", "", "")
Padded(s) == [s EXCEPT !.pad = TRUE]

UrlA == Url("https", "a.webhook.office.com", "")
UrlB == Url("https", "b.webhook.office.com", "")
UrlHttp == Url("http", "a.webhook.office.com", "")
UrlNoHost == Url("https", "", "443")      \* "https://:443/hook"
UrlNoNetloc == Url("https", "", "")       \* "https:///hook"

Strs == {UrlA, UrlB, UrlHttp, UrlNoHost, UrlNoNetloc}

\* None, the value of an empty cache
None == [scheme |-> "None", host |-> "", port |-> "", pad |-> FALSE]

\* urlparse(candidate).netloc
Netloc(u) == IF u.port = "" THEN u.host ELSE u.host \o ":" \o u.port

\* urlparse(candidate).hostname
Hostname(u) == u.host

\* str.strip()
StrStrip(s) == [s EXCEPT !.pad = FALSE]

\* bool(s) for a str
StrTruthy(s) == s # EmptyStr

\* bool(_webhook_url_cache): None and "" are falsy
CacheTruthy(cache) == cache # None /\ StrTruthy(cache)

-----------------------------------------------------------------------------
(* Python values as they reach get_webhook_url and _is_valid_webhook_url   *)

PyNone == [t |-> "none", s |-> EmptyStr]
PyInt == [t |-> "int", s |-> EmptyStr]      \* a non-zero number
PyStr(s) == [t |-> "str", s |-> s]

\* bool(v)
Truthy(v) == CASE v.t = "none" -> FALSE
               [] v.t = "int" -> TRUE
               [] v.t = "str" -> StrTruthy(v.s)

\* a or b
PyOr(a, b) == IF Truthy(a) THEN a ELSE b

\* _is_valid_webhook_url
is_valid_webhook_url(candidate) ==
    IF candidate.t # "str" THEN FALSE
    ELSE candidate.s.scheme = "https" /\ Netloc(candidate.s) # ""

-----------------------------------------------------------------------------
(* What secrets_provider.get can answer *)

SecretRaise == [kind |-> "raise"]
SecretPlain(v) == [kind |-> "plain", v |-> v]
\* dict.get(key) is None for an absent key
SecretDict(a, b, c) == [kind |-> "dict", webhook_url |-> a, url |-> b, value |-> c]

SecretReplies ==
    {SecretRaise, SecretPlain(PyNone), SecretPlain(PyStr(EmptyStr)),
     SecretPlain(PyStr(Padded(EmptyStr)))}
    \cup {SecretPlain(PyStr(s)) : s \in Strs}
    \cup {SecretPlain(PyStr(Padded(UrlA)))}
    \cup {SecretDict(PyStr(UrlA), PyNone, PyNone),
          SecretDict(PyNone, PyStr(UrlB), PyStr(UrlHttp)),
          SecretDict(PyStr(EmptyStr), PyNone, PyStr(UrlB)),
          SecretDict(PyNone, PyNone, PyStr(UrlHttp)),
          SecretDict(PyNone, PyNone, PyStr(UrlNoHost)),
          SecretDict(PyNone, PyInt, PyNone),
          SecretDict(PyNone, PyNone, PyNone)}

\* exceptions: the class and its status_code attribute (lines 53-73)
Exc(class, message, status_code) ==
    [class |-> class, message |-> message, status_code |-> status_code]

AlarmProcessingError(message) == Exc("AlarmProcessingError", message, 500)
ConfigurationError(message) == Exc("ConfigurationError", message, 500)
InvalidAlarmPayloadError(message) == Exc("InvalidAlarmPayloadError", message, 400)
WebhookDeliveryError(message, status_code) == Exc("WebhookDeliveryError", message, status_code)
\* an exception that is not an AlarmProcessingError (KeyError, AttributeError, ...)
OtherError(class, message) == Exc(class, message, 0)

IsAlarmProcessingError(e) ==
    e.class \in {"AlarmProcessingError", "ConfigurationError",
                 "InvalidAlarmPayloadError", "WebhookDeliveryError"}

NoExc == Exc("", "", 0)

\* lines 129-136: the candidate URL taken from the secret (a dict, None or a str)
SecretCandidate(secret_value) ==
    IF secret_value.kind = "dict"
    THEN PyOr(secret_value.webhook_url, PyOr(secret_value.url, secret_value.value))
    ELSE IF Truthy(secret_value.v)
         THEN PyStr(StrStrip(secret_value.v.s))
         ELSE PyStr(EmptyStr)

GwReturn(url, cache, n) == [raised |-> FALSE, url |-> url, exc |-> NoExc, cache |-> cache, lookups |-> n]
GwRaise(exc, cache, n) == [raised |-> TRUE, url |-> None, exc |-> exc, cache |-> cache, lookups |-> n]

\* get_webhook_url without the assignment of line 146
get_webhook_url_no_cache_write(force_refresh, secret_name, cache, reply) ==
    IF secret_name = "" THEN GwRaise(ConfigurationError("WEBHOOK_URL_SECRET_NAME variable is required"), cache, 0)
    ELSE IF ~force_refresh /\ CacheTruthy(cache) THEN GwReturn(cache, cache, 0)
    ELSE IF reply.kind = "raise" THEN GwRaise(AlarmProcessingError("Unexpected error retrieving secret"), cache, 1)
    ELSE LET webhook_url == SecretCandidate(reply) IN
         IF ~Truthy(webhook_url) THEN GwRaise(ConfigurationError("Secret does not contain a webhook URL"), cache, 1)
         ELSE IF ~is_valid_webhook_url(webhook_url) THEN GwRaise(ConfigurationError("Webhook URL must be an https URL with a hostname"), cache, 1)
         ELSE GwReturn(webhook_url.s, cache, 1)

\* get_webhook_url that empties the cache when the secret turns out unusable
get_webhook_url_clears_on_failure(force_refresh, secret_name, cache, reply) ==
    IF secret_name = "" THEN GwRaise(ConfigurationError("WEBHOOK_URL_SECRET_NAME variable is required"), cache, 0)
    ELSE IF ~force_refresh /\ CacheTruthy(cache) THEN GwReturn(cache, cache, 0)
    ELSE IF reply.kind = "raise" THEN GwRaise(AlarmProcessingError("Unexpected error retrieving secret"), None, 1)
    ELSE LET webhook_url == SecretCandidate(reply) IN
         IF ~Truthy(webhook_url) THEN GwRaise(ConfigurationError("Secret does not contain a webhook URL"), None, 1)
         ELSE IF ~is_valid_webhook_url(webhook_url) THEN GwRaise(ConfigurationError("Webhook URL must be an https URL with a hostname"), None, 1)
         ELSE GwReturn(webhook_url.s, webhook_url.s, 1)

\* get_webhook_url: cache is _webhook_url_cache before the call, reply what
\* secrets_provider.get answers if it is asked.  The result carries the cache
\* after the call and the number of secret store lookups made.
get_webhook_url(force_refresh, secret_name, cache, reply) ==
    IF secret_name = "" THEN GwRaise(ConfigurationError("WEBHOOK_URL_SECRET_NAME variable is required"), cache, 0)
    ELSE IF ~force_refresh /\ CacheTruthy(cache) THEN GwReturn(cache, cache, 0)
    ELSE IF reply.kind = "raise" THEN GwRaise(AlarmProcessingError("Unexpected error retrieving secret"), cache, 1)
    ELSE LET webhook_url == SecretCandidate(reply) IN
         IF ~Truthy(webhook_url) THEN GwRaise(ConfigurationError("Secret does not contain a webhook URL"), cache, 1)
         ELSE IF ~is_valid_webhook_url(webhook_url) THEN GwRaise(ConfigurationError("Webhook URL must be an https URL with a hostname"), cache, 1)
         ELSE GwReturn(webhook_url.s, webhook_url.s, 1)

-----------------------------------------------------------------------------
(* Texts: sequences of one-character strings *)

Whitespace == {" ", "\t", "\n", "\r"}

RECURSIVE ReplaceCRLF(_)
\* str.replace("\r\n", "\n")
ReplaceCRLF(t) ==
    IF t = <<>> THEN <<>>
    ELSE IF Len(t) >= 2 /\ t[1] = "\r" /\ t[2] = "\n"
         THEN <<"\n">> \o ReplaceCRLF(SubSeq(t, 3, Len(t)))
         ELSE <<t[1]>> \o ReplaceCRLF(Tail(t))

RECURSIVE ReplaceChar(_, _, _)
\* str.replace(c, r) for a one-character c
ReplaceChar(t, c, r) ==
    IF t = <<>> THEN <<>>
    ELSE (IF t[1] = c THEN r ELSE <<t[1]>>) \o ReplaceChar(Tail(t), c, r)

RECURSIVE LStrip(_)
LStrip(t) == IF t # <<>> /\ t[1] \in Whitespace THEN LStrip(Tail(t)) ELSE t

RECURSIVE RStrip(_)
RStrip(t) ==
    IF t # <<>> /\ t[Len(t)] \in Whitespace THEN RStrip(SubSeq(t, 1, Len(t) - 1)) ELSE t

\* str.strip()
Strip(t) == RStrip(LStrip(t))

\* t[:n]
Prefix(t, n) == SubSeq(t, 1, IF Len(t) < n THEN Len(t) ELSE n)

Lower == <<"a","b","c","d","e","f","g","h","i","j","k","l","m",
           "n","o","p","q","r","s","t","u","v","w","x","y","z">>
Upper == <<"A","B","C","D","E","F","G","H","I","J","K","L","M",
           "N","O","P","Q","R","S","T","U","V","W","X","Y","Z">>

UpperChar(c) ==
    IF \E i \in 1..26 : Lower[i] = c
    THEN Upper[CHOOSE i \in 1..26 : Lower[i] = c]
    ELSE c

\* str.upper()
StrUpper(t) == [i \in 1..Len(t) |-> UpperChar(t[i])]

-----------------------------------------------------------------------------
(* JSON values of an alarm payload *)

JStr(t) == [t |-> "str", s |-> t]
JNum == [t |-> "num", s |-> <<"8", "0">>]     \* the number 80
JNull == [t |-> "null", s |-> <<>>]

\* str(v)
PyStrOf(v) ==
    CASE v.t = "str" -> v.s
      [] v.t = "num" -> v.s
      [] v.t = "null" -> <<"N", "o", "n", "e">>

DEFAULT_MAX_LENGTH == 1000

\* The grave accent (a TLA+ string cannot hold it; this character stands for it)
Backtick == "^"

\* sanitize_text without the replace of line 174
sanitize_text_keeps_underscore(text, max_length) ==
    LET t == IF text.t # "str" THEN PyStrOf(text) ELSE text.s
        sanitized ==
            Strip(ReplaceChar(ReplaceChar(ReplaceChar(ReplaceCRLF(t),
                "\r", <<"\n">>), "*", <<"\\", "*">>), Backtick, <<"\\", Backtick>>))
    IN  Prefix(sanitized, max_length)

\* sanitize_text
sanitize_text(text, max_length) ==
    LET t == IF text.t # "str" THEN PyStrOf(text) ELSE text.s
        sanitized ==
            Strip(ReplaceChar(ReplaceChar(ReplaceChar(ReplaceChar(ReplaceCRLF(t),
                "\r", <<"\n">>), "*", <<"\\", "*">>), "_", <<"\\", "_">>), Backtick, <<"\\", Backtick>>))
    IN  Prefix(sanitized, max_length)

-----------------------------------------------------------------------------
(* extract_alarm_data *)

Fields == {"AlarmName", "AlarmDescription", "NewStateReason", "NewStateValue",
           "AWSAccountId", "Namespace", "Threshold", "Region", "StateChangeTime"}

TUnknown == <<"U", "n", "k", "n", "o", "w", "n">>
TNoDescription == <<"N", "o", " ", "d", "e", "s", "c", "r", "i", "p", "t", "i", "o", "n", " ", "p", "r", "o", "v", "i", "d", "e", "d">>
TNoReason == <<"N", "o", " ", "r", "e", "a", "s", "o", "n", " ", "p", "r", "o", "v", "i", "d", "e", "d">>
TUNKNOWN == <<"U", "N", "K", "N", "O", "W", "N">>
TNA == <<"N", "/", "A">>
TZeroAccount == <<"0", "0", "0", "0", "0", "0", "0", "0", "0", "0", "0", "0">>
Tunknown == <<"u", "n", "k", "n", "o", "w", "n">>
TEuWest1 == <<"e", "u", "-", "w", "e", "s", "t", "-", "1">>
\* datetime.now(timezone.utc).isoformat(): some non-empty text
TNow == <<"2", "0", "2", "6", "-", "0", "1", "-", "0", "1", "T", "0", "0", ":", "0", "0", ":", "0", "0", "+", "0", "0", ":", "0", "0">>

\* alarm.get(key, default)
Get(alarm, key, default) == IF key \in DOMAIN alarm THEN alarm[key] ELSE default

ExReturn(data) == [raised |-> FALSE, exc |-> NoExc, data |-> data]
ExRaise(exc) == [raised |-> TRUE, exc |-> exc, data |-> <<>>]

\* extract_alarm_data: alarm maps the keys the payload holds to their JSON
\* values; aws_region is the module's AWS_REGION
extract_alarm_data(alarm, aws_region) ==
    LET raw == Get(alarm, "AlarmName", JStr(TUnknown))
        raw_alarm_name == IF raw.t # "str" THEN PyStrOf(raw) ELSE raw.s
        raw_state_change_time == Get(alarm, "StateChangeTime", JNull)
        alarm_time == IF raw_state_change_time.t = "str" /\ raw_state_change_time.s # <<>>
                      THEN raw_state_change_time.s ELSE TNow
        new_state_value == Get(alarm, "NewStateValue", JStr(TUNKNOWN))
    IN  IF new_state_value.t # "str"
        THEN ExRaise(OtherError("AttributeError", "object has no attribute 'upper'"))
        ELSE ExReturn(
            [account_id |-> PyStrOf(Get(alarm, "AWSAccountId", JStr(TZeroAccount))),
             alarm_name |-> sanitize_text(JStr(raw_alarm_name), DEFAULT_MAX_LENGTH),
             alarm_name_raw |-> raw_alarm_name,
             alarm_desc |-> sanitize_text(Get(alarm, "AlarmDescription", JStr(TNoDescription)), DEFAULT_MAX_LENGTH),
             alarm_reason |-> sanitize_text(Get(alarm, "NewStateReason", JStr(TNoReason)), DEFAULT_MAX_LENGTH),
             alarm_time |-> alarm_time,
             alarm_state |-> StrUpper(new_state_value.s),
             namespace |-> sanitize_text(Get(alarm, "Namespace", JStr(TNA)), DEFAULT_MAX_LENGTH),
             threshold |-> PyStrOf(Get(alarm, "Threshold", JStr(TNA))),
             region |-> PyStrOf(Get(alarm, "Region",
                           JStr(IF aws_region # <<>> THEN aws_region ELSE Tunknown)))])

-----------------------------------------------------------------------------
(* The inputs the pure functions are tried on *)

Chars == {"a", " ", "\r", "\n", "*", "_", Backtick}

Texts == UNION {[1..n -> Chars] : n \in 0..MaxTextLen}

\* the max_length arguments tried: short ones, so that a text can exceed it, and the default
MaxLengths == {1, 2, DEFAULT_MAX_LENGTH}

JsonValues == {JStr(<<"o", "k">>), JStr(<<"A", "_", "b">>), JStr(<<>>), JNum, JNull}

\* payloads that hold at most MaxPresent of the recognised fields
Alarms == UNION {[present -> JsonValues] :
                    present \in {P \in SUBSET Fields : Cardinality(P) <= MaxPresent}}

Regions == {<<>>, TEuWest1}

-----------------------------------------------------------------------------
(* The HTTP session: requests over urllib3 with the Retry of lines 96-101 *)

RETRY_TOTAL == 3
STATUS_FORCELIST == {429, 500, 502, 503, 504}

HttpStatuses == {200, 404, 429, 503}

\* what one POST attempt on the wire can end in
Attempt(k, status) == [k |-> k, status |-> status]
AttemptOutcomes ==
    {Attempt("status", s) : s \in HttpStatuses}
    \cup {Attempt("connect_timeout", 0), Attempt("read_timeout", 0),
          Attempt("connection_error", 0)}

\* what session.post ends in: a response, or a raised exception
PostResponse(status) == [k |-> "response", status |-> status, class |-> ""]
PostRaise(class) == [k |-> "raise", status |-> 0, class |-> class]
PostPending == [k |-> "pending", status |-> 0, class |-> ""]
NoPost == [k |-> "none", status |-> 0, class |-> ""]

TimeoutClasses == {"Timeout", "ConnectTimeout", "ReadTimeout"}
RequestExceptionClasses ==
    TimeoutClasses \cup {"RequestException", "ConnectionError", "RetryError", "InvalidURL"}

\* session.post with the retries used up one attempt early
session_post_exhausts_early(total, o) ==
    IF o.k = "status" /\ o.status \notin STATUS_FORCELIST
    THEN [total |-> total, post |-> PostResponse(o.status)]
    ELSE IF total - 1 <= 0
         THEN [total |-> total - 1,
               post |-> CASE o.k = "status" -> PostRaise("RetryError")
                          [] o.k = "connect_timeout" -> PostRaise("ConnectTimeout")
                          [] o.k = "read_timeout" -> PostRaise("ConnectionError")
                          [] o.k = "connection_error" -> PostRaise("ConnectionError")]
         ELSE [total |-> total - 1, post |-> PostPending]

\* One attempt of session.post under Retry(total=3, status_forcelist=...,
\* allowed_methods={"POST"}): total is the number of retries left before the
\* attempt.  A status outside the forcelist is the response; any other outcome
\* is retried while retries are left, and raises once they are used up
\* (raise_on_status is left at its default, True).
session_post(total, o) ==
    IF o.k = "status" /\ o.status \notin STATUS_FORCELIST
    THEN [total |-> total, post |-> PostResponse(o.status)]
    ELSE IF total - 1 < 0
         THEN [total |-> total - 1,
               post |-> CASE o.k = "status" -> PostRaise("RetryError")
                          [] o.k = "connect_timeout" -> PostRaise("ConnectTimeout")
                          [] o.k = "read_timeout" -> PostRaise("ConnectionError")
                          [] o.k = "connection_error" -> PostRaise("ConnectionError")]
         ELSE [total |-> total - 1, post |-> PostPending]

SendResult(success, message, status_code) ==
    [success |-> success, message |-> message, status_code |-> status_code]
NoSend == SendResult(FALSE, "", 0)

\* send_to_teams, lines 342-362: from what session.post ended in to the result
send_to_teams(post) ==
    IF post.k = "response"
    THEN IF post.status >= 400
         THEN SendResult(FALSE, "Teams webhook returned " \o ToString(post.status), post.status)
         ELSE SendResult(TRUE, "Success", post.status)
    ELSE IF post.class \in TimeoutClasses
         THEN SendResult(FALSE, "Timeout sending webhook to Teams", 408)
    ELSE IF post.class \in RequestExceptionClasses
         THEN SendResult(FALSE, "Request error sending to Teams", 500)
    ELSE SendResult(FALSE, "Unexpected error sending to Teams", 500)

-----------------------------------------------------------------------------
(* SNS records *)

Message(json, alarm) == [json |-> json, alarm |-> alarm]

AlarmOk == ("AlarmName" :> JStr(<<"C", "P", "U", "_", "1">>)) @@ ("NewStateValue" :> JStr(<<"o", "k">>))
AlarmNullState == ("AlarmName" :> JStr(<<"C", "P", "U", "_", "1">>)) @@ ("NewStateValue" :> JNull)

Messages == {Message("invalid", <<>>), Message("array", <<>>),
             Message("object", AlarmOk), Message("object", AlarmNullState)}

\* sns: the envelope holds "Sns"; message_id: "" when "Sns" holds no "MessageId"
SnsRecord(sns, message_id, message) == [sns |-> sns, message_id |-> message_id, message |-> message]

NoSnsRecord == SnsRecord(FALSE, "", Message("invalid", <<>>))

SnsRecords ==
    {NoSnsRecord} \cup {SnsRecord(TRUE, id, m) : id \in {"", "msg-1"}, m \in Messages}

Batches == UNION {[1..n -> SnsRecords] : n \in 0..MaxRecords}

\* the result of a call: a returned value or a raised exception
Returned(value) == [raised |-> FALSE, value |-> value, exc |-> NoExc]
Raised(exc) == [raised |-> TRUE, value |-> "", exc |-> exc]

\* SNSMessage.message_id is the wrapped dict's ["MessageId"]: a KeyError when the
\* key is absent, which getattr's default (for AttributeError only) lets through
MessageIdOf(sns_record) ==
    IF sns_record.message_id = ""
    THEN Raised(OtherError("KeyError", "MessageId"))
    ELSE Returned(sns_record.message_id)

\* _safe_message_id
safe_message_id(sns_record) ==
    IF ~sns_record.sns THEN Returned("unknown")
    ELSE MessageIdOf(sns_record)

-----------------------------------------------------------------------------
(* process_sns_record *)

NoData == <<>>

PsrRaise(exc, cache, n) ==
    [k |-> "raise", exc |-> exc, message_id |-> "", alarm_data |-> NoData,
     webhook_url |-> None, cache |-> cache, lookups |-> n]
PsrSend(message_id, alarm_data, webhook_url, cache, n) ==
    [k |-> "send", exc |-> NoExc, message_id |-> message_id, alarm_data |-> alarm_data,
     webhook_url |-> webhook_url, cache |-> cache, lookups |-> n]

\* process_sns_record, lines 367-403: up to the call of send_to_teams.  Either an
\* exception leaves the function, or the card is ready to be sent to webhook_url.
process_sns_record_begin(sns_record, secret_name, aws_region, cache, reply) ==
    IF ~sns_record.sns
    THEN PsrRaise(InvalidAlarmPayloadError("SNS record missing required 'Sns' payload"), cache, 0)
    ELSE IF MessageIdOf(sns_record).raised
    THEN PsrRaise(MessageIdOf(sns_record).exc, cache, 0)
    ELSE IF sns_record.message.json = "invalid"
    THEN PsrRaise(InvalidAlarmPayloadError("Invalid JSON in SNS message"), cache, 0)
    ELSE IF sns_record.message.json # "object"
    THEN PsrRaise(InvalidAlarmPayloadError("SNS message must be a JSON object"), cache, 0)
    ELSE LET ex == extract_alarm_data(sns_record.message.alarm, aws_region) IN
         IF ex.raised THEN PsrRaise(ex.exc, cache, 0)
         ELSE LET gw == get_webhook_url(FALSE, secret_name, cache, reply) IN
              IF gw.raised THEN PsrRaise(gw.exc, gw.cache, gw.lookups)
              ELSE PsrSend(MessageIdOf(sns_record).value, ex.data, gw.url, gw.cache, gw.lookups)

\* process_sns_record, lines 404-422: from the result of send_to_teams on
process_sns_record_end(psr, sent) ==
    IF ~sent.success
    THEN Raised(WebhookDeliveryError(sent.message, sent.status_code))
    ELSE Returned([alarm_name |-> psr.alarm_data.alarm_name,
                   alarm_state |-> psr.alarm_data.alarm_state,
                   status_code |-> sent.status_code,
                   message_id |-> psr.message_id])

-----------------------------------------------------------------------------
(* lambda_handler *)

DEFAULT_TIMEOUT_SECONDS == 10

\* TIMEOUT_SECONDS as _load_timeout_seconds leaves it: a positive integer
TIMEOUT_SECONDS == DEFAULT_TIMEOUT_SECONDS

validate_environment(secret_name, aws_region, timeout_seconds) ==
    IF secret_name = "" THEN [valid |-> FALSE, error |-> "WEBHOOK_URL_SECRET_NAME variable is required"]
    ELSE IF aws_region = <<>> THEN [valid |-> FALSE, error |-> "AWS_REGION environment variable is required"]
    ELSE IF timeout_seconds <= 0 THEN [valid |-> FALSE, error |-> "TIMEOUT_SECONDS must be a positive integer"]
    ELSE [valid |-> TRUE, error |-> ""]

Response(statusCode, body) == [statusCode |-> statusCode, body |-> body, exc |-> NoExc]
Unhandled(exc) == [statusCode |-> 0, body |-> <<>>, exc |-> exc]
NoResponse == Response(0, <<>>)

RECURSIVE MaxStatus(_)
\* max(failure["status_code"] for failure in failures)
MaxStatus(fs) ==
    IF Len(fs) = 1 THEN fs[1].status_code
    ELSE LET m == MaxStatus(Tail(fs)) IN IF fs[1].status_code > m THEN fs[1].status_code ELSE m

\* lines 459-486: the entry appended to failures.  record_index is not part of
\* the entry: it records which input record the entry is for.
FailureEntry(exc, message_id, i) ==
    IF IsAlarmProcessingError(exc)
    THEN [message |-> exc.message, status_code |-> exc.status_code,
          message_id |-> message_id, record_index |-> i]
    ELSE [message |-> "Unexpected error processing SNS record", detail |-> exc.message,
          status_code |-> 500, message_id |-> message_id, record_index |-> i]

\* line 458: the entry appended to successes (record_index as above)
SuccessEntry(result, i) ==
    [alarm_name |-> result.alarm_name, alarm_state |-> result.alarm_state,
     status_code |-> result.status_code, message_id |-> result.message_id,
     record_index |-> i]

\* lines 488-507 with the status of the first failure in place of the maximum
aggregate_first_failure(succ, fail) ==
    IF fail # <<>>
    THEN Response(fail[1].status_code,
                  IF succ # <<>>
                  THEN [error |-> "One or more notifications failed", failures |-> fail,
                        successes |-> succ]
                  ELSE [error |-> "One or more notifications failed", failures |-> fail])
    ELSE Response(200, [message |-> "Processed " \o ToString(Len(succ)) \o " alarm notification(s)",
                        successes |-> succ])

\* lines 488-507 without the test of line 494
aggregate_always_successes(succ, fail) ==
    IF fail # <<>>
    THEN Response(MaxStatus(fail),
                  [error |-> "One or more notifications failed", failures |-> fail,
                   successes |-> succ])
    ELSE Response(200, [message |-> "Processed " \o ToString(Len(succ)) \o " alarm notification(s)",
                        successes |-> succ])

\* lambda_handler, lines 488-507: the response built once the loop has ended
aggregate(succ, fail) ==
    IF fail # <<>>
    THEN Response(MaxStatus(fail),
                  IF succ # <<>>
                  THEN [error |-> "One or more notifications failed", failures |-> fail,
                        successes |-> succ]
                  ELSE [error |-> "One or more notifications failed", failures |-> fail])
    ELSE Response(200, [message |-> "Processed " \o ToString(Len(succ)) \o " alarm notification(s)",
                        successes |-> succ])

Entered == [returned |-> FALSE, response |-> NoResponse]

\* lines 439-448 without the return of line 448: an empty batch falls through to line 499
lambda_handler_entry_accepts_empty(batch, secret_name, aws_region) ==
    LET env == validate_environment(secret_name, aws_region, TIMEOUT_SECONDS) IN
    IF ~env.valid
    THEN [returned |-> TRUE, response |-> Response(500, [error |-> env.error])]
    ELSE IF batch = <<>>
    THEN [returned |-> TRUE, response |-> aggregate(<<>>, <<>>)]
    ELSE Entered

\* lambda_handler, lines 439-448: the checks made before any record is looked at
lambda_handler_entry(batch, secret_name, aws_region) ==
    LET env == validate_environment(secret_name, aws_region, TIMEOUT_SECONDS) IN
    IF ~env.valid
    THEN [returned |-> TRUE, response |-> Response(500, [error |-> env.error])]
    ELSE IF batch = <<>>
    THEN [returned |-> TRUE,
          response |-> Response(400, [error |-> "SNS event did not contain any records"])]
    ELSE Entered

NoRetry == [total |-> 0, attempts |-> 0]
NoCur == PsrRaise(NoExc, None, 0)
NoPosted == [post |-> NoPost, sent |-> NoSend, url |-> None, attempts |-> 0,
             last |-> Attempt("none", 0)]
NoCall == [made |-> FALSE, force_refresh |-> FALSE, before |-> None,
           result |-> GwRaise(NoExc, None, 0)]
NoFn == [op |-> "none"]

\* The for loop's bookkeeping after one record: the outcome is appended, and
\* after the last record the response is built and returned.
EndRecord(raised, exc, result, message_id) ==
    LET succ == IF raised THEN successes ELSE Append(successes, SuccessEntry(result, idx))
        fail == IF raised THEN Append(failures, FailureEntry(exc, message_id, idx)) ELSE failures
    IN  /\ successes' = succ
        /\ failures' = fail
        /\ idx' = idx + 1
        /\ cur' = NoCur
        /\ retry' = NoRetry
        /\ IF idx = Len(records)
           THEN pc' = "returned" /\ response' = aggregate(succ, fail)
           ELSE pc' = "loop" /\ UNCHANGED response

\* lambda_handler is called with a batch: lines 439-451
Invoke(batch) ==
    /\ pc = "idle"
    /\ records' = batch
    /\ successes' = <<>>
    /\ failures' = <<>>
    /\ idx' = 1
    /\ cur' = NoCur
    /\ retry' = NoRetry
    /\ lookups' = 0
    /\ lookupsFailed' = 0
    /\ cacheAtInvoke' = webhook_url_cache
    /\ posted' = NoPosted
    /\ LET entry == lambda_handler_entry(batch, WEBHOOK_URL_SECRET_NAME, AWS_REGION) IN
       /\ pc' = IF entry.returned THEN "returned" ELSE "loop"
       /\ response' = entry.response
    /\ call' = NoCall
    /\ UNCHANGED <<WEBHOOK_URL_SECRET_NAME, AWS_REGION, webhook_url_cache, fn>>

\* One iteration of the loop, lines 453-486, up to the first POST attempt:
\* reply is what the secret store answers if get_webhook_url asks it.
ProcessRecord(reply) ==
    /\ pc = "loop"
    /\ LET sns_record == records[idx]
           mid == safe_message_id(sns_record)
           psr == process_sns_record_begin(sns_record, WEBHOOK_URL_SECRET_NAME, AWS_REGION,
                                           webhook_url_cache, reply)
       IN  IF mid.raised
           THEN \* the exception leaves lambda_handler: line 454 is outside the try
                /\ pc' = "raised"
                /\ response' = Unhandled(mid.exc)
                /\ UNCHANGED <<webhook_url_cache, idx, successes, failures, cur, retry,
                               lookups, lookupsFailed, posted>>
           ELSE /\ webhook_url_cache' = psr.cache
                /\ lookups' = lookups + psr.lookups
                /\ lookupsFailed' = lookupsFailed
                                    + (IF psr.k = "raise" /\ psr.lookups = 1 THEN 1 ELSE 0)
                /\ IF psr.k = "raise"
                   THEN /\ EndRecord(TRUE, psr.exc, NoData, mid.value)
                        /\ UNCHANGED posted
                   ELSE IF Hostname(psr.webhook_url) = ""
                   THEN \* requests refuses a URL without a host before sending anything
                        LET post == PostRaise("InvalidURL")
                            sent == send_to_teams(post)
                            done == process_sns_record_end(psr, sent)
                        IN  /\ posted' = [post |-> post, sent |-> sent,
                                          url |-> psr.webhook_url, attempts |-> 0,
                                          last |-> Attempt("none", 0)]
                            /\ EndRecord(done.raised, done.exc, done.value, mid.value)
                   ELSE /\ pc' = "sending"
                        /\ cur' = psr
                        /\ retry' = [total |-> RETRY_TOTAL, attempts |-> 0]
                        /\ posted' = [post |-> PostPending, sent |-> NoSend,
                                      url |-> psr.webhook_url, attempts |-> 0,
                                      last |-> Attempt("none", 0)]
                        /\ UNCHANGED <<idx, successes, failures, response>>
    /\ UNCHANGED <<WEBHOOK_URL_SECRET_NAME, AWS_REGION, records, cacheAtInvoke, call, fn>>

\* One POST attempt inside session.post (line 335) ends in o; when session.post
\* ends, send_to_teams and the rest of the iteration run.
HttpAttempt(o) ==
    /\ pc = "sending"
    /\ LET sp == session_post(retry.total, o)
           attempts == retry.attempts + 1
       IN  IF sp.post.k = "pending"
           THEN /\ retry' = [total |-> sp.total, attempts |-> attempts]
                /\ posted' = [posted EXCEPT !.attempts = attempts, !.last = o]
                /\ UNCHANGED <<pc, idx, successes, failures, response, cur>>
           ELSE LET sent == send_to_teams(sp.post)
                    done == process_sns_record_end(cur, sent)
                IN  /\ posted' = [post |-> sp.post, sent |-> sent, url |-> cur.webhook_url,
                                  attempts |-> attempts, last |-> o]
                    /\ EndRecord(done.raised, done.exc, done.value, cur.message_id)
    /\ UNCHANGED <<WEBHOOK_URL_SECRET_NAME, AWS_REGION, webhook_url_cache, records,
                   lookups, lookupsFailed, cacheAtInvoke, call, fn>>

\* The runtime has the response (or the exception) of the invocation; its
\* locals are gone and the process waits for the next event.
Respond ==
    /\ pc \in {"returned", "raised"}
    /\ pc' = "idle"
    /\ records' = <<>>
    /\ idx' = 1
    /\ successes' = <<>>
    /\ failures' = <<>>
    /\ response' = NoResponse
    /\ lookups' = 0
    /\ lookupsFailed' = 0
    /\ cacheAtInvoke' = None
    /\ posted' = NoPosted
    /\ UNCHANGED <<WEBHOOK_URL_SECRET_NAME, AWS_REGION, webhook_url_cache, cur, retry, call, fn>>

\* get_webhook_url called on its own, between invocations of the handler
GetWebhookUrl(force_refresh, reply) ==
    /\ pc = "idle"
    /\ LET r == get_webhook_url(force_refresh, WEBHOOK_URL_SECRET_NAME, webhook_url_cache, reply) IN
       /\ webhook_url_cache' = r.cache
       /\ call' = [made |-> TRUE, force_refresh |-> force_refresh,
                   before |-> webhook_url_cache, result |-> r]
    /\ UNCHANGED <<WEBHOOK_URL_SECRET_NAME, AWS_REGION, fn>>
    /\ UNCHANGED handlerVars

Init ==
    /\ WEBHOOK_URL_SECRET_NAME \in {"", "secret-name"}
    /\ AWS_REGION \in Regions
    /\ webhook_url_cache = None
    /\ pc = "idle"
    /\ records = <<>>
    /\ idx = 1
    /\ successes = <<>>
    /\ failures = <<>>
    /\ response = NoResponse
    /\ cur = NoCur
    /\ retry = NoRetry
    /\ lookups = 0
    /\ lookupsFailed = 0
    /\ cacheAtInvoke = None
    /\ posted = NoPosted
    /\ call = NoCall
    /\ fn = NoFn

Next ==
    \/ \E batch \in Batches : Invoke(batch)
    \/ \E reply \in SecretReplies : ProcessRecord(reply)
    \/ \E o \in AttemptOutcomes : HttpAttempt(o)
    \/ Respond
    \/ \E force_refresh \in BOOLEAN, reply \in SecretReplies : GetWebhookUrl(force_refresh, reply)

Spec == Init /\ [][Next]_vars

-----------------------------------------------------------------------------
(* Properties of lambda_handler *)

EnvValid == validate_environment(WEBHOOK_URL_SECRET_NAME, AWS_REGION, TIMEOUT_SECONDS).valid

\* the loop of a non-empty batch has ended and lambda_handler has returned
BatchReturned == pc = "returned" /\ EnvValid /\ records # <<>>

\* lambda_handler is over, by a return or by an exception
BatchOver == pc \in {"returned", "raised"} /\ EnvValid /\ records # <<>>

FailureCodes == {failures[i].status_code : i \in 1..Len(failures)}

\* C1: for a non-empty batch, the status code lambda_handler returns is 200 when
\* no record failed and otherwise the greatest status code among the failures.
C1_StatusIsWorstFailure ==
    BatchReturned =>
        IF failures = <<>>
        THEN response.statusCode = 200
        ELSE /\ response.statusCode \in FailureCodes
             /\ \A c \in FailureCodes : c <= response.statusCode

\* two failures, the second one the worse
C1_Witness ==
    /\ BatchReturned
    /\ Len(failures) = 2
    /\ failures[1].status_code = 400
    /\ failures[2].status_code = 500
    /\ response.statusCode = 500

IsInOrder(entries) ==
    \A i, j \in 1..Len(entries) : i < j => entries[i].record_index < entries[j].record_index

\* C2: whatever goes wrong with a record, the identifier's extraction included,
\* lambda_handler ends by returning, with exactly one outcome per input record,
\* each list in input order.
C2_EveryRecordHasOneOutcome ==
    BatchOver =>
        /\ pc = "returned"
        /\ Len(successes) + Len(failures) = Len(records)
        /\ \A i \in 1..Len(records) :
              Cardinality({k \in 1..Len(successes) : successes[k].record_index = i})
              + Cardinality({k \in 1..Len(failures) : failures[k].record_index = i}) = 1
        /\ IsInOrder(successes)
        /\ IsInOrder(failures)

\* C3 as stated: the body always holds the list of successes, and holds the list
\* of failures only when a record failed.
C3_SuccessesAlwaysIncluded ==
    BatchReturned =>
        /\ "successes" \in DOMAIN response.body
        /\ ("failures" \in DOMAIN response.body) <=> (failures # <<>>)

\* C3: the body holds the list of successes when no record failed or at least
\* one succeeded (the key is left out when every record failed), and holds the
\* list of failures exactly when a record failed.
C3_SuccessesUnlessAllFailed ==
    BatchReturned =>
        /\ ("successes" \in DOMAIN response.body) <=> (failures = <<>> \/ successes # <<>>)
        /\ ("successes" \in DOMAIN response.body) => response.body.successes = successes
        /\ ("failures" \in DOMAIN response.body) <=> (failures # <<>>)
        /\ ("failures" \in DOMAIN response.body) => response.body.failures = failures

\* every record failed: the body has no successes key
C3_Witness ==
    /\ BatchReturned
    /\ successes = <<>>
    /\ Len(failures) = Len(records)
    /\ "successes" \notin DOMAIN response.body
    /\ "failures" \in DOMAIN response.body

\* a record for which process_sns_record gets as far as get_webhook_url
NeedsWebhookUrl(sns_record) ==
    /\ sns_record.sns
    /\ sns_record.message.json = "object"
    /\ "NewStateValue" \in DOMAIN sns_record.message.alarm
          => sns_record.message.alarm["NewStateValue"].t = "str"

\* C4: with a secret store that answers a valid https URL, a call that finds
\* the cache empty asks the store once and fills the cache; a call without
\* force_refresh that finds the cache filled asks it zero times and returns the
\* cached URL; a call with force_refresh asks it again.  So a batch that starts
\* on an empty cache asks the store exactly once, however many records need the URL.
C4_CacheSavesLookups ==
    /\ (call.made /\ WEBHOOK_URL_SECRET_NAME # "") =>
          /\ call.result.lookups = IF call.force_refresh \/ call.before = None THEN 1 ELSE 0
          /\ (~call.force_refresh /\ call.before # None) =>
                ~call.result.raised /\ call.result.url = call.before
          /\ ~call.result.raised =>
                webhook_url_cache = call.result.url /\ webhook_url_cache # None
    /\ (EnvValid /\ cacheAtInvoke = None /\ lookupsFailed = 0) =>
          /\ lookups <= 1
          /\ BatchReturned =>
                lookups = IF \E i \in 1..Len(records) : NeedsWebhookUrl(records[i])
                          THEN 1 ELSE 0

\* a batch of two delivered records on a cold cache: one lookup
C4_Witness ==
    /\ BatchReturned
    /\ cacheAtInvoke = None
    /\ Len(successes) = 2
    /\ lookupsFailed = 0
    /\ lookups = 1

\* C5: the cache is empty or holds an https URL with a non-empty host, and so
\* does every URL handed to the delivery client.
C5_CachedUrlIsHttpsWithHost ==
    /\ webhook_url_cache # None =>
          webhook_url_cache.scheme = "https" /\ Hostname(webhook_url_cache) # ""
    /\ posted.url # None =>
          posted.url.scheme = "https" /\ Hostname(posted.url) # ""

\* a record whose payload cannot be processed as an alarm
IsBadPayload(sns_record) ==
    \/ ~sns_record.sns
    \/ sns_record.message.json \in {"invalid", "array"}

OutcomesOf(i) ==
    {successes[k] : k \in {k \in 1..Len(successes) : successes[k].record_index = i}}
    \cup {failures[k] : k \in {k \in 1..Len(failures) : failures[k].record_index = i}}

\* C6: once lambda_handler is over, every record with an unprocessable payload
\* has a failure outcome with status 400 ("unknown" as its identifier when the
\* envelope has no Sns), and a batch of such records alone makes no secret
\* store lookup and no delivery attempt.
C6_BadPayloadIs400 ==
    BatchOver =>
        /\ \A i \in 1..Len(records) :
              IsBadPayload(records[i]) =>
                 /\ OutcomesOf(i) # {}
                 /\ \A e \in OutcomesOf(i) :
                       /\ e.status_code = 400
                       /\ "alarm_name" \notin DOMAIN e
                       /\ ~records[i].sns => e.message_id = "unknown"
        /\ (\A i \in 1..Len(records) : IsBadPayload(records[i])) =>
              lookups = 0 /\ posted = NoPosted

\* C7: an empty batch is answered with status 400 and an error message, without
\* successes or failures lists, and nothing is looked up or sent.
C7_EmptyBatchIs400 ==
    (pc = "returned" /\ EnvValid /\ records = <<>>) =>
        /\ response.statusCode = 400
        /\ DOMAIN response.body = {"error"}
        /\ response.body.error = "SNS event did not contain any records"
        /\ successes = <<>> /\ failures = <<>>
        /\ lookups = 0
        /\ posted = NoPosted
        /\ webhook_url_cache = cacheAtInvoke

C7_Witness ==
    /\ pc = "returned" /\ EnvValid /\ records = <<>>
    /\ response.statusCode = 400

\* C8: send_to_teams returns (True, "Success", status) when the final response
\* has a status below 400, (False, message, status) with that same status when
\* it is 400 or above, (False, message, 408) when the call timed out and
\* (False, message, 500) for any other transport failure.
C8_SendResultFollowsResponse ==
    posted.post.k \in {"response", "raise"} =>
        CASE posted.last.k = "status" /\ posted.last.status < 400 ->
                posted.sent = SendResult(TRUE, "Success", posted.last.status)
          [] posted.last.k = "status" /\ posted.last.status >= 400 ->
                ~posted.sent.success /\ posted.sent.status_code = posted.last.status
          [] posted.last.k \in {"connect_timeout", "read_timeout"} ->
                ~posted.sent.success /\ posted.sent.status_code = 408
          [] OTHER ->
                ~posted.sent.success /\ posted.sent.status_code = 500

\* C11 as stated: one send_to_teams call makes at most 3 POST attempts, and
\* stops after the 3rd when every response has a status of the forcelist.
C11_AtMostThreeAttempts ==
    /\ posted.attempts <= 3
    /\ retry.attempts <= 3
    /\ posted.post = PostRaise("RetryError") => posted.attempts = 3

\* C11: one send_to_teams call makes at most 4 POST attempts, the first one and
\* the 3 retries of Retry(total=3): when every response has a status of the
\* forcelist the client stops after the 4th attempt, and no sequence of
\* responses makes the number of attempts of one delivery exceed 4.
C11_AtMostFourAttempts ==
    /\ posted.attempts <= RETRY_TOTAL + 1
    /\ retry.attempts <= RETRY_TOTAL + 1
    /\ pc = "sending" => retry.attempts + retry.total = RETRY_TOTAL
    /\ posted.post = PostRaise("RetryError") =>
          /\ posted.attempts = RETRY_TOTAL + 1
          /\ posted.last.k = "status" /\ posted.last.status \in STATUS_FORCELIST

\* every response had a status of the forcelist: the client gave up after the 4th attempt
C11_Witness ==
    /\ posted.post = PostRaise("RetryError")
    /\ posted.attempts = 4
    /\ posted.last.k = "status"
    /\ posted.last.status \in STATUS_FORCELIST
    /\ pc # "sending"

\* a get_webhook_url call that raised
CallFailed == call.made /\ call.result.raised

\* the step is a get_webhook_url call without force_refresh
UnforcedCallStep == call' # call /\ call'.made /\ ~call'.force_refresh

\* the records of the batch processed so far that got as far as get_webhook_url
AskedSoFar == {i \in 1..(idx - 1) : NeedsWebhookUrl(records[i])}

\* a failed call leaves _webhook_url_cache as it found it
C12_FailedCallKeepsCache ==
    CallFailed => webhook_url_cache = call.before /\ call.result.cache = call.before

\* after a failed call on a populated cache, a call without force_refresh
\* returns the URL that was cached before the failure, without a lookup
C12_NextCallReturnsKeptUrl ==
    (CallFailed /\ call.before # None /\ UnforcedCallStep) =>
        /\ ~call'.result.raised
        /\ call'.result.url = call.before
        /\ call'.result.lookups = 0
        /\ webhook_url_cache' = call.before

\* in a batch that found the cache empty and whose lookups all failed, the
\* cache is still empty and every record that needed the URL made a lookup
C12_EmptyCacheStaysEmpty ==
    (pc \in {"loop", "returned"} /\ EnvValid /\ records # <<>>
       /\ cacheAtInvoke = None /\ lookups = lookupsFailed) =>
        /\ webhook_url_cache = None
        /\ lookups = Cardinality(AskedSoFar)

\* C12: a get_webhook_url call that fails (the secret store raises, the secret
\* has no usable URL field, or the value is not an https URL with a netloc)
\* leaves the cache unchanged, also with force_refresh=True on a populated
\* cache: the URL cached before is kept and is what a following call without
\* force_refresh returns, and an empty cache stays empty, so that the next
\* record's call asks the secret store again.
C12_FailureLeavesCacheUnchanged ==
    /\ [](C12_FailedCallKeepsCache /\ C12_EmptyCacheStaysEmpty)
    /\ [][C12_NextCallReturnsKeptUrl]_vars

\* a forced refresh of a populated cache failed and the URL is still cached
C12_Witness ==
    /\ CallFailed
    /\ call.force_refresh
    /\ call.before # None
    /\ call.result.lookups = 1
    /\ webhook_url_cache = call.before

\* two records of one batch each asked the secret store, on a cache left empty
C12_WitnessBatch ==
    /\ BatchReturned
    /\ cacheAtInvoke = None
    /\ webhook_url_cache = None
    /\ lookups = 2
    /\ lookupsFailed = 2

-----------------------------------------------------------------------------
(* The pure functions, applied to every input of the bounded sets *)

TextInputs == {JStr(t) : t \in Texts} \cup {JNum, JNull}

SanitizeText ==
    /\ fn.op = "text"
    /\ fn' = [op |-> "sanitized", text |-> fn.text, max_length |-> fn.max_length,
              once |-> sanitize_text(fn.text, fn.max_length)]
    /\ UNCHANGED <<WEBHOOK_URL_SECRET_NAME, AWS_REGION, webhook_url_cache, call>>
    /\ UNCHANGED handlerVars

\* sanitize_text applied to its own result
SanitizeTextAgain ==
    /\ fn.op = "sanitized"
    /\ fn' = [op |-> "resanitized", text |-> fn.text, max_length |-> fn.max_length,
              once |-> fn.once,
              twice |-> sanitize_text(JStr(fn.once), fn.max_length)]
    /\ UNCHANGED <<WEBHOOK_URL_SECRET_NAME, AWS_REGION, webhook_url_cache, call>>
    /\ UNCHANGED handlerVars

ExtractAlarmData ==
    /\ fn.op = "alarm"
    /\ fn' = [op |-> "extracted", alarm |-> fn.alarm,
              result |-> extract_alarm_data(fn.alarm, AWS_REGION)]
    /\ UNCHANGED <<WEBHOOK_URL_SECRET_NAME, AWS_REGION, webhook_url_cache, call>>
    /\ UNCHANGED handlerVars

InitFn ==
    /\ WEBHOOK_URL_SECRET_NAME = "secret-name"
    /\ AWS_REGION \in Regions
    /\ webhook_url_cache = None
    /\ pc = "idle"
    /\ records = <<>>
    /\ idx = 1
    /\ successes = <<>>
    /\ failures = <<>>
    /\ response = NoResponse
    /\ cur = NoCur
    /\ retry = NoRetry
    /\ lookups = 0
    /\ lookupsFailed = 0
    /\ cacheAtInvoke = None
    /\ posted = NoPosted
    /\ call = NoCall
    /\ fn \in {[op |-> "text", text |-> t, max_length |-> m] : t \in TextInputs, m \in MaxLengths}
              \cup {[op |-> "alarm", alarm |-> a] : a \in Alarms}

NextFn == SanitizeText \/ SanitizeTextAgain \/ ExtractAlarmData

SpecFn == InitFn /\ [][NextFn]_vars

MarkdownChars == {"*", "_", Backtick}

\* C9 as stated: sanitize_text(sanitize_text(x)) == sanitize_text(x) for every text x
C9_SanitizeIsIdempotent ==
    fn.op = "resanitized" => fn.twice = fn.once

\* a sanitized text that a second pass leaves alone
IsStable(t) ==
    /\ \A i \in 1..Len(t) : t[i] \notin MarkdownChars
    /\ t # <<>> => t[Len(t)] \notin Whitespace

\* C9: sanitize_text(sanitize_text(x)) == sanitize_text(x) exactly for the texts
\* whose sanitized form holds no *, _ or backtick and does not end in whitespace
\* (which truncation can leave); on any other text the second pass changes the
\* result: it escapes the markdown characters again, or strips that whitespace.
C9_IdempotentOnStableTexts ==
    fn.op = "resanitized" => ((fn.twice = fn.once) <=> IsStable(fn.once))

\* a text with a carriage return, longer than max_length, sanitized twice to the same result
C9_Witness ==
    /\ fn.op = "resanitized"
    /\ fn.text.t = "str"
    /\ Len(fn.text.s) > fn.max_length
    /\ \E i \in 1..Len(fn.text.s) : fn.text.s[i] = "\r"
    /\ fn.once # <<>>
    /\ fn.twice = fn.once

\* the payload key each field of the result is taken from
SourceKey ==
    [account_id |-> "AWSAccountId", alarm_name |-> "AlarmName", alarm_name_raw |-> "AlarmName",
     alarm_desc |-> "AlarmDescription", alarm_reason |-> "NewStateReason",
     alarm_time |-> "StateChangeTime", alarm_state |-> "NewStateValue",
     namespace |-> "Namespace", threshold |-> "Threshold", region |-> "Region"]

\* C10: extract_alarm_data returns a field set for every payload, whatever
\* fields are absent and whatever JSON values the present ones hold, and every
\* field taken from an absent key holds its non-empty default.
C10_ExtractNeverFails ==
    fn.op = "extracted" =>
        /\ ~fn.result.raised
        /\ DOMAIN fn.result.data = DOMAIN SourceKey
        /\ \A f \in DOMAIN SourceKey :
              SourceKey[f] \notin DOMAIN fn.alarm => fn.result.data[f] # <<>>

====
